---------------------------- MODULE Spec2Model ----------------------------
(***************************************************************************)
(* Model of the huber-pilot-one frame codec (src/src/lib.rs).              *)
(*                                                                         *)
(* A &str is modelled as the sequence of its UTF-8 bytes (0..255); a      *)
(* [u8; 10] as a sequence of ten bytes.  Option<u16> is the record        *)
(* [some, val]; Result<Command, ParseError> is the record [tag, ...].     *)
(* A panic (unreachable!(), split_at out of bounds or off a character      *)
(* boundary) is an explicit outcome, so that its absence can be checked.   *)
(***************************************************************************)
EXTENDS Integers, Sequences, FiniteSets

(***************************************************************************)
(* Byte literals of the source.                                            *)
(***************************************************************************)
LBRACE == 123
CR == 13
LF == 10
CharM == 77
CharS == 83
STAR == 42
Char0 == 48
CharA == 65
CharLowerA == 97
PLUS == 43
MINUS == 45
U8_MAX == 255
U16_MAX == 65535
FRAME_LEN == 10
RADIX == 16
ASCII_LIMIT == 128
CONT_LO == 128
CONT_HI == 191

(***************************************************************************)
(* Types.                                                                  *)
(***************************************************************************)
Sender == {"Master", "Slave"}

None == [some |-> FALSE, val |-> 0]
Some(v) == [some |-> TRUE, val |-> v]

Command(s, a, d) == [sender |-> s, address |-> a, data |-> d]

ParseError == {"MessageLength", "NonAsciiStr", "Sender", "CommandData", "Address"}

Ok(c) == [tag |-> "Ok", cmd |-> c, err |-> "-"]
Err(e) == [tag |-> "Err", cmd |-> Command("Master", 0, None), err |-> e]
Panic == [tag |-> "Panic", cmd |-> Command("Master", 0, None), err |-> "-"]

(***************************************************************************)
(* Address enum, its discriminants and from_u8.                            *)
(***************************************************************************)
Address == {"SetpointTempControl", "InternalTemp", "ErrorReport",
            "WarningMessage", "SetProcessTemp", "TempControlMode",
            "TempControl", "OperationLock", "ProcessTempActualSettingMode"}

AddressIntoU8(a) ==
  CASE a = "SetpointTempControl" -> 0
    [] a = "InternalTemp" -> 1
    [] a = "ErrorReport" -> 5
    [] a = "WarningMessage" -> 6
    [] a = "SetProcessTemp" -> 9
    [] a = "TempControlMode" -> 19
    [] a = "TempControl" -> 20
    [] a = "OperationLock" -> 23
    [] a = "ProcessTempActualSettingMode" -> 25

NoAddress == [some |-> FALSE, addr |-> "-"]
SomeAddress(a) == [some |-> TRUE, addr |-> a]

from_u8_swapped(x) ==
  CASE x = 0 -> SomeAddress("SetpointTempControl")
    [] x = 1 -> SomeAddress("InternalTemp")
    [] x = 5 -> SomeAddress("ErrorReport")
    [] x = 6 -> SomeAddress("WarningMessage")
    [] x = 9 -> SomeAddress("SetProcessTemp")
    [] x = 19 -> SomeAddress("TempControl")
    [] x = 20 -> SomeAddress("TempControlMode")
    [] x = 23 -> SomeAddress("OperationLock")
    [] x = 25 -> SomeAddress("ProcessTempActualSettingMode")
    [] OTHER -> NoAddress

from_u8(x) ==
  CASE x = 0 -> SomeAddress("SetpointTempControl")
    [] x = 1 -> SomeAddress("InternalTemp")
    [] x = 5 -> SomeAddress("ErrorReport")
    [] x = 6 -> SomeAddress("WarningMessage")
    [] x = 9 -> SomeAddress("SetProcessTemp")
    [] x = 19 -> SomeAddress("TempControlMode")
    [] x = 20 -> SomeAddress("TempControl")
    [] x = 23 -> SomeAddress("OperationLock")
    [] x = 25 -> SomeAddress("ProcessTempActualSettingMode")
    [] OTHER -> NoAddress

(***************************************************************************)
(* Encoder.                                                                *)
(***************************************************************************)
SenderIntoU8(s) == IF s = "Master" THEN CharM ELSE CharS

EMPTY_DATA == <<STAR, STAR, STAR, STAR>>

byte_cmd_msg(sender, addr, data) ==
  <<LBRACE, sender, addr[1], addr[2], data[1], data[2], data[3], data[4], CR, LF>>

\* unreachable!() is the value Unreachable
Unreachable == -1

to_upper_hex_lowercase(x) ==
  IF x \in 0..9 THEN Char0 + x
  ELSE IF x \in 10..15 THEN CharLowerA + (x - 10)
  ELSE Unreachable

to_upper_hex(x) ==
  IF x \in 0..9 THEN Char0 + x
  ELSE IF x \in 10..15 THEN CharA + (x - 10)
  ELSE Unreachable

into_bytes_low_byte_first(c) ==
  LET addr == <<to_upper_hex(c.address \div 16), to_upper_hex(c.address % 16)>>
      hi == (c.data.val \div 256) % 256
      lo == c.data.val % 256
      data == IF c.data.some
              THEN <<to_upper_hex(lo \div 16), to_upper_hex(lo % 16),
                     to_upper_hex(hi \div 16), to_upper_hex(hi % 16)>>
              ELSE EMPTY_DATA
      msg == byte_cmd_msg(SenderIntoU8(c.sender), addr, data)
  IN IF \E i \in 1..Len(msg) : msg[i] = Unreachable THEN <<>> ELSE msg

\* the frame, or <<>> when a to_upper_hex call panicked
into_bytes(c) ==
  LET addr == <<to_upper_hex(c.address \div 16), to_upper_hex(c.address % 16)>>
      hi == (c.data.val \div 256) % 256
      lo == c.data.val % 256
      data == IF c.data.some
              THEN <<to_upper_hex(hi \div 16), to_upper_hex(hi % 16),
                     to_upper_hex(lo \div 16), to_upper_hex(lo % 16)>>
              ELSE EMPTY_DATA
      msg == byte_cmd_msg(SenderIntoU8(c.sender), addr, data)
  IN IF \E i \in 1..Len(msg) : msg[i] = Unreachable THEN <<>> ELSE msg


(***************************************************************************)
(* str primitives used by the decoder.                                     *)
(***************************************************************************)
is_ascii_always(s) == TRUE

is_ascii(s) == \A i \in 1..Len(s) : s[i] < ASCII_LIMIT

\* a byte index is a boundary when it is an end of the string or the byte
\* that starts there is no UTF-8 continuation byte
is_char_boundary(s, index) ==
  IF index = 0 \/ index = Len(s) THEN TRUE
  ELSE IF index > Len(s) THEN FALSE
  ELSE ~(s[index + 1] \in CONT_LO..CONT_HI)

\* str::split_at: panics when mid is past the end or off a boundary
split_at(s, mid) ==
  IF is_char_boundary(s, mid)
  THEN [ok |-> TRUE, head |-> SubSeq(s, 1, mid), tail |-> SubSeq(s, mid + 1, Len(s))]
  ELSE [ok |-> FALSE, head |-> <<>>, tail |-> <<>>]

(***************************************************************************)
(* u8::from_str_radix / u16::from_str_radix of core, for an unsigned type  *)
(* whose largest value is max.                                             *)
(***************************************************************************)
NoDigit == -1

to_digit_upper_only(c, radix) ==
  LET d == IF c \in Char0..(Char0 + 9) THEN c - Char0
           ELSE IF c \in CharA..(CharA + 25) THEN c - CharA + 10
           ELSE radix
  IN IF d < radix THEN d ELSE NoDigit

to_digit(c, radix) ==
  LET d == IF c \in Char0..(Char0 + 9) THEN c - Char0
           ELSE IF c \in CharLowerA..(CharLowerA + 25) THEN c - CharLowerA + 10
           ELSE IF c \in CharA..(CharA + 25) THEN c - CharA + 10
           ELSE radix
  IN IF d < radix THEN d ELSE NoDigit

ParseErr == [ok |-> FALSE, val |-> 0]
ParseOk(v) == [ok |-> TRUE, val |-> v]

RECURSIVE accumulate(_, _, _, _)
\* the digit loop: checked_mul by the radix, then checked_add of the digit
accumulate(digits, radix, max, result) ==
  IF digits = <<>> THEN ParseOk(result)
  ELSE LET x == to_digit(Head(digits), radix)
       IN IF x = NoDigit THEN ParseErr
          ELSE IF result * radix > max THEN ParseErr
          ELSE IF result * radix + x > max THEN ParseErr
          ELSE accumulate(Tail(digits), radix, max, result * radix + x)

from_str_radix_digits_only(src, radix, max) ==
  IF src = <<>> THEN ParseErr
  ELSE accumulate(src, radix, max, 0)

from_str_radix(src, radix, max) ==
  IF src = <<>> THEN ParseErr
  ELSE IF Head(src) \in {PLUS, MINUS} /\ Tail(src) = <<>> THEN ParseErr
  ELSE IF Head(src) = PLUS THEN accumulate(Tail(src), radix, max, 0)
  ELSE accumulate(src, radix, max, 0)

(***************************************************************************)
(* Decoder.                                                                *)
(***************************************************************************)
len_ok_always(s) == TRUE

len_ok_at_least(s) == Len(s) >= FRAME_LEN

\* s.len() != 10 is the negation
len_ok(s) == Len(s) = FRAME_LEN

split_fields_from_start(s) ==
  LET a == split_at(s, 0)
      b == split_at(a.tail, 1)
      c == split_at(b.tail, 2)
      d == split_at(c.tail, 4)
  IN [ok |-> a.ok /\ b.ok /\ c.ok /\ d.ok,
      sender |-> b.head, addr |-> c.head, data |-> d.head]

\* the four split_at calls; ok is FALSE when one of them panics
split_fields(s) ==
  LET a == split_at(s, 1)
      b == split_at(a.tail, 1)
      c == split_at(b.tail, 2)
      d == split_at(c.tail, 4)
  IN [ok |-> a.ok /\ b.ok /\ c.ok /\ d.ok,
      sender |-> b.head, addr |-> c.head, data |-> d.head]

parse_sender(sender) ==
  IF sender = <<CharM>> THEN "Master"
  ELSE IF sender = <<CharS>> THEN "Slave"
  ELSE "-"

parse_data(data) ==
  IF data = EMPTY_DATA THEN [ok |-> TRUE, data |-> None]
  ELSE LET r == from_str_radix(data, RADIX, U16_MAX)
       IN [ok |-> r.ok, data |-> IF r.ok THEN Some(r.val) ELSE None]

parse_address(addr) == from_str_radix(addr, RADIX, U8_MAX)

from_str_address_first(s) ==
  IF ~len_ok(s) THEN Err("MessageLength")
  ELSE IF ~is_ascii(s) THEN Err("NonAsciiStr")
  ELSE LET f == split_fields(s)
           sender == parse_sender(f.sender)
           data == parse_data(f.data)
           address == parse_address(f.addr)
       IN IF ~f.ok THEN Panic
          ELSE IF sender = "-" THEN Err("Sender")
          ELSE IF ~address.ok THEN Err("Address")
          ELSE IF ~data.ok THEN Err("CommandData")
          ELSE Ok(Command(sender, address.val, data.data))

from_str(s) ==
  IF ~len_ok(s) THEN Err("MessageLength")
  ELSE IF ~is_ascii(s) THEN Err("NonAsciiStr")
  ELSE LET f == split_fields(s)
           sender == parse_sender(f.sender)
           data == parse_data(f.data)
           address == parse_address(f.addr)
       IN IF ~f.ok THEN Panic
          ELSE IF sender = "-" THEN Err("Sender")
          ELSE IF ~data.ok THEN Err("CommandData")
          ELSE IF ~address.ok THEN Err("Address")
          ELSE Ok(Command(sender, address.val, data.data))


(***************************************************************************)
(* Inputs of the checked runs.                                             *)
(***************************************************************************)
MaxExtra == 2
MaxCut == 4

\* hex digits and their neighbours, signs, the placeholder, other ASCII
DataChars == {Char0, Char0 + 9, CharA + 5, CharLowerA, CharA + 6, PLUS, MINUS, STAR}
AddrChars == {Char0, Char0 + 9, CharA, CharA + 5, CharLowerA, CharLowerA + 5,
              CharA + 6, CharLowerA + 6, CharA + 19, PLUS, MINUS, STAR, 32}
SenderChars == {CharM, CharS, CharM + 32, CharA + 23}
Framings == {<<LBRACE, CR, LF>>, <<CharLowerA + 23, CharLowerA + 24, CharLowerA + 25>>}

\* "31", "aB", "TT", "+F"
SmallAddrFields == {<<Char0 + 3, Char0 + 1>>, <<CharLowerA, CharA + 1>>,
                    <<CharA + 19, CharA + 19>>, <<PLUS, CharA + 5>>}
\* "****", "3219", "0z00", "+FFF"
SmallDataFields == {EMPTY_DATA,
                    <<Char0 + 3, Char0 + 2, Char0 + 1, Char0 + 9>>,
                    <<Char0, CharLowerA + 25, Char0, Char0>>,
                    <<PLUS, CharA + 5, CharA + 5, CharA + 5>>}

Frame(fr, s, a, d) == <<fr[1], s>> \o a \o d \o <<fr[2], fr[3]>>

\* ten ASCII bytes: one of the two hex fields runs over every combination
IsFieldInput(s) ==
  \E fr \in Framings, sc \in SenderChars :
    \/ \E a \in SmallAddrFields, w \in DataChars, x \in DataChars,
          y \in DataChars, z \in DataChars :
         s = Frame(fr, sc, a, <<w, x, y, z>>)
    \/ \E x \in AddrChars, y \in AddrChars, d \in SmallDataFields :
         s = Frame(fr, sc, <<x, y>>, d)

BaseInputs ==
  {Frame(fr, s, a, d) : fr \in Framings, s \in {CharM, CharA + 23},
                        a \in SmallAddrFields, d \in SmallDataFields}

\* UTF-8 encodings of U+00E9, U+20AC, U+1D11E, and two characters in a row
MultiByte == {<<195, 169>>, <<226, 130, 172>>, <<240, 157, 132, 158>>,
              <<195, 169, 195, 169>>}
Replacements == {<<>>} \cup MultiByte

RECURSIVE Pad(_)
Pad(k) == IF k = 0 THEN <<>> ELSE <<Char0>> \o Pad(k - 1)

\* n characters from the i-th on replaced by m
Splice(s, i, n, m) == SubSeq(s, 1, i - 1) \o m \o SubSeq(s, i + n, Len(s))

\* lengths 0 .. 10 + MaxExtra + 4, with and without non-ASCII characters
IsSplicedInput(s) ==
  \E b \in BaseInputs :
    \/ \E k \in 0..MaxExtra, i \in 1..(FRAME_LEN + 1), n \in 0..MaxCut,
          m \in Replacements :
         s = Splice(b \o Pad(k), i, n, m)
    \/ \E n \in 0..FRAME_LEN : s = SubSeq(b, 1, n)

IsInput(s) == IsFieldInput(s) \/ IsSplicedInput(s)

SmallData == {None, Some(1), Some(171), Some(1512), Some(12825), Some(U16_MAX)}
SweepData == {Some(n * 257) : n \in 0..U8_MAX}
             \cup {Some(n * (RADIX ^ k)) : n \in 0..(RADIX - 1), k \in 0..3}
SmallAddresses == {0, 7, 9, 25, 34, 49, U8_MAX}

Commands ==
  {Command(s, a, d) : s \in Sender, a \in 0..U8_MAX, d \in SmallData}
  \cup {Command(s, a, d) : s \in Sender, a \in SmallAddresses, d \in SweepData}

(***************************************************************************)
(* The runs: a caller encodes a command and decodes the frame again,       *)
(* decodes a received string, or converts an address.                      *)
(***************************************************************************)
VARIABLES mode, pc, cmd, frame, input, result, addr, byte, lookup

vars == <<mode, pc, cmd, frame, input, result, addr, byte, lookup>>

NoCommand == Command("Master", 0, None)
NoResult == [tag |-> "-", cmd |-> NoCommand, err |-> "-"]

Init ==
  /\ pc = "start"
  /\ frame = <<>>
  /\ result = NoResult
  /\ lookup = NoAddress
  /\ \/ mode = "encode" /\ cmd \in Commands /\ input = <<>> /\ addr = "-" /\ byte = 0
     \/ mode = "decode" /\ cmd = NoCommand /\ IsInput(input) /\ addr = "-" /\ byte = 0
     \/ mode = "address" /\ cmd = NoCommand /\ input = <<>> /\ addr \in Address /\ byte = 0
     \/ mode = "byte" /\ cmd = NoCommand /\ input = <<>> /\ addr = "-" /\ byte \in 0..U8_MAX

\* Command::into_bytes
IntoBytes ==
  /\ mode = "encode" /\ pc = "start"
  /\ frame' = into_bytes(cmd)
  /\ pc' = "encoded"
  /\ UNCHANGED <<mode, cmd, input, result, addr, byte, lookup>>

\* the frame just encoded is handed to Command::from_str
FromStrFrame ==
  /\ mode = "encode" /\ pc = "encoded" /\ frame # <<>>
  /\ input' = frame
  /\ result' = from_str(frame)
  /\ pc' = "decoded"
  /\ UNCHANGED <<mode, cmd, frame, addr, byte, lookup>>

\* Command::from_str on a received string
FromStr ==
  /\ mode = "decode" /\ pc = "start"
  /\ result' = from_str(input)
  /\ pc' = "decoded"
  /\ UNCHANGED <<mode, cmd, frame, input, addr, byte, lookup>>

\* Address as u8
AddressInto ==
  /\ mode = "address" /\ pc = "start"
  /\ byte' = AddressIntoU8(addr)
  /\ pc' = "converted"
  /\ UNCHANGED <<mode, cmd, frame, input, result, addr, lookup>>

\* Address::from_u8
FromU8 ==
  /\ \/ mode = "address" /\ pc = "converted"
     \/ mode = "byte" /\ pc = "start"
  /\ lookup' = from_u8(byte)
  /\ pc' = "looked"
  /\ UNCHANGED <<mode, cmd, frame, input, result, addr, byte>>

Next == IntoBytes \/ FromStrFrame \/ FromStr \/ AddressInto \/ FromU8

Spec == Init /\ [][Next]_vars


(***************************************************************************)
(* Reference definitions the properties are stated with.                   *)
(***************************************************************************)
HexTable == <<48, 49, 50, 51, 52, 53, 54, 55, 56, 57, 65, 66, 67, 68, 69, 70>>

\* n as w hexadecimal digits, most significant first
RefHex(n, w) == [i \in 1..w |-> HexTable[((n \div (16 ^ (w - i))) % 16) + 1]]

ReferenceFrame(c) ==
  <<123, IF c.sender = "Master" THEN 77 ELSE 83>>
  \o RefHex(c.address, 2)
  \o (IF c.data.some THEN RefHex(c.data.val, 4) ELSE <<42, 42, 42, 42>>)
  \o <<13, 10>>

IsHexDigit(ch) == ch \in (48..57) \cup (65..70) \cup (97..102)

HexVal(ch) == IF ch \in 48..57 THEN ch - 48
              ELSE IF ch \in 65..70 THEN ch - 55 ELSE ch - 87

RECURSIVE RefValue(_)
RefValue(field) ==
  IF field = <<>> THEN 0
  ELSE 16 * RefValue(SubSeq(field, 1, Len(field) - 1)) + HexVal(field[Len(field)])

AllHex(field) == \A i \in 1..Len(field) : IsHexDigit(field[i])

SenderField(s) == s[2]
AddrField(s) == SubSeq(s, 3, 4)
DataField(s) == SubSeq(s, 5, 8)

\* a received string that passed the length and the ASCII check was decoded
DecodedFrame ==
  /\ mode = "decode" /\ pc = "decoded"
  /\ Len(input) = 10
  /\ \A i \in 1..Len(input) : input[i] \in 0..127

SenderValid == SenderField(input) \in {77, 83}

\* the field is accepted by the decoder's own parse of it
AddrAccepted == parse_address(AddrField(input)).ok
DataAccepted == parse_data(DataField(input)).ok

\* the field is what the frame grammar allows
AddrGrammar == AllHex(AddrField(input))
DataGrammar == DataField(input) = <<42, 42, 42, 42>> \/ AllHex(DataField(input))

(***************************************************************************)
(* C1: decoding the ten bytes into_bytes produced for a command gives back *)
(* Ok of that very command: same sender, same address, same data, absent   *)
(* data stays absent and present data stays present.                       *)
(***************************************************************************)
C1_RoundTrip ==
  /\ (mode = "encode" /\ pc = "encoded") => from_str(frame) = Ok(cmd)
  /\ (mode = "encode" /\ pc = "decoded") =>
       /\ result.tag = "Ok"
       /\ result.cmd.sender = cmd.sender
       /\ result.cmd.address = cmd.address
       /\ result.cmd.data.some = cmd.data.some
       /\ result.cmd.data.val = cmd.data.val

C1_Witness ==
  /\ mode = "encode" /\ pc = "decoded"
  /\ cmd = Command("Slave", 34, Some(12825))
  /\ result = Ok(cmd)

(***************************************************************************)
(* C2: into_bytes never reaches unreachable!() and returns exactly the ten *)
(* bytes of the reference frame: '{', 'M' or 'S', the address as two       *)
(* zero-padded uppercase hex digits, '****' or the data as four            *)
(* zero-padded uppercase hex digits, CR LF; no byte is a lowercase a-f.    *)
(***************************************************************************)
C2_EncodeReference ==
  (mode = "encode" /\ pc \in {"encoded", "decoded"}) =>
    /\ Len(frame) = 10
    /\ frame = ReferenceFrame(cmd)
    /\ \A i \in 1..Len(frame) : frame[i] \notin 97..102

C2_Witness ==
  /\ mode = "encode" /\ pc = "encoded"
  /\ cmd = Command("Slave", 171, Some(171))
  /\ frame = <<123, 83, 65, 66, 48, 48, 65, 66, 13, 10>>

(***************************************************************************)
(* C3 as stated: the checks run in the order length, ASCII, sender,        *)
(* address, data: a bad sender gives Err(Sender), a valid sender with a    *)
(* rejected address gives Err(Address) even when the data is rejected too, *)
(* and Err(CommandData) comes only with a valid sender and address.        *)
(***************************************************************************)
C3_AddressBeforeData ==
  DecodedFrame =>
    /\ ~SenderValid => result = Err("Sender")
    /\ (SenderValid /\ ~AddrAccepted) => result = Err("Address")
    /\ result = Err("CommandData") => (SenderValid /\ AddrAccepted)

(***************************************************************************)
(* C3 amended: the checks run in the order length, ASCII, sender, data,    *)
(* address: a bad sender gives Err(Sender) whatever bytes 2-7 hold, a      *)
(* valid sender with a rejected data field gives Err(CommandData) even     *)
(* when the address is rejected too, and Err(Address) comes only with a    *)
(* valid sender and an accepted data field.                                *)
(***************************************************************************)
C3_DataBeforeAddress ==
  DecodedFrame =>
    /\ ~SenderValid => result = Err("Sender")
    /\ (SenderValid /\ ~DataAccepted) => result = Err("CommandData")
    /\ result = Err("Address") => (SenderValid /\ DataAccepted /\ ~AddrAccepted)
    /\ result = Err("CommandData") => SenderValid

C3_Witness ==
  /\ DecodedFrame
  /\ SenderValid /\ ~AddrAccepted /\ ~DataAccepted
  /\ result = Err("CommandData")

(***************************************************************************)
(* C4 as stated: with byte 1 'M' or 'S', from_str returns Ok exactly when  *)
(* bytes 2-3 are two hex digits and bytes 4-7 are '****' or four hex       *)
(* digits; other bytes 2-3 (a sign included) give Err(Address), other      *)
(* bytes 4-7 give Err(CommandData); on success address and data are the    *)
(* values of the digits.                                                   *)
(***************************************************************************)
C4_HexFieldsOnly ==
  (DecodedFrame /\ SenderValid) =>
    /\ result.tag = "Ok" <=> (AddrGrammar /\ DataGrammar)
    /\ (~AddrGrammar /\ DataGrammar) => result = Err("Address")
    /\ (~DataGrammar /\ AddrGrammar) => result = Err("CommandData")
    /\ (~DataGrammar /\ ~AddrGrammar) => result.tag = "Err"
    /\ result.tag = "Ok" =>
         /\ result.cmd.address = RefValue(AddrField(input))
         /\ result.cmd.data =
              IF DataField(input) = <<42, 42, 42, 42>> THEN None
              ELSE Some(RefValue(DataField(input)))

(***************************************************************************)
(* C5: an input whose byte length is not 10 gives Err(MessageLength),      *)
(* whatever it holds.                                                      *)
(***************************************************************************)
C5_LengthFirst ==
  (mode = "decode" /\ pc = "decoded" /\ Len(input) # 10) =>
    result = Err("MessageLength")

C5_Witness ==
  /\ mode = "decode" /\ pc = "decoded"
  /\ Len(input) = 11
  /\ \E i \in 1..Len(input) : input[i] > 127
  /\ input[2] = 88
  /\ result = Err("MessageLength")

(***************************************************************************)
(* C6: an input of exactly 10 bytes with a byte outside 0x00-0x7F gives    *)
(* Err(NonAsciiStr), wherever that byte is and whatever the rest holds.    *)
(***************************************************************************)
C6_NonAscii ==
  (mode = "decode" /\ pc = "decoded" /\ Len(input) = 10
     /\ \E i \in 1..Len(input) : input[i] > 127) =>
    result = Err("NonAsciiStr")

C6_Witness ==
  /\ mode = "decode" /\ pc = "decoded" /\ Len(input) = 10
  /\ SubSeq(input, 1, 8) = <<123, 77, 51, 49, 42, 42, 42, 42>>
  /\ input[9] > 127
  /\ result = Err("NonAsciiStr")

(***************************************************************************)
(* C7: from_str never panics: it returns Ok or one of the five errors, and *)
(* whenever the length and ASCII checks pass all four split_at calls are   *)
(* in bounds and on character boundaries.                                  *)
(***************************************************************************)
C7_NoPanic ==
  /\ pc = "decoded" =>
       \/ result.tag = "Ok"
       \/ result.tag = "Err" /\ result.err \in ParseError
  /\ (mode = "decode" /\ Len(input) = 10 /\ \A i \in 1..Len(input) : input[i] \in 0..127)
       => split_fields(input).ok

C7_Witness ==
  /\ mode = "decode" /\ pc = "decoded"
  /\ Len(input) = 10
  /\ ~is_char_boundary(input, 2)
  /\ result.tag = "Err"

(***************************************************************************)
(* C8: changing the case of the letters a-f / A-F in bytes 2-7 of a        *)
(* 10-byte ASCII input does not change what from_str returns.              *)
(***************************************************************************)
Upper(ch) == IF ch \in 97..102 THEN ch - 32 ELSE ch
Lower(ch) == IF ch \in 65..70 THEN ch + 32 ELSE ch
Flip(ch) == IF ch \in 97..102 THEN ch - 32 ELSE IF ch \in 65..70 THEN ch + 32 ELSE ch

UpperFields(s) == [i \in 1..Len(s) |-> IF i \in 3..8 THEN Upper(s[i]) ELSE s[i]]
LowerFields(s) == [i \in 1..Len(s) |-> IF i \in 3..8 THEN Lower(s[i]) ELSE s[i]]
FlipAt(s, k) == [i \in 1..Len(s) |-> IF i = k THEN Flip(s[i]) ELSE s[i]]

C8_CaseInsensitive ==
  DecodedFrame =>
    /\ from_str(UpperFields(input)) = result
    /\ from_str(LowerFields(input)) = result
    /\ \A k \in 3..8 : from_str(FlipAt(input, k)) = result

C8_Witness ==
  /\ DecodedFrame
  /\ AddrField(input) = <<97, 66>>
  /\ DataField(input) = <<97, 70, 97, 70>>
  /\ result = Ok(Command("Master", 171, Some(44975)))
  /\ from_str(UpperFields(input)) = result

(***************************************************************************)
(* C9: from_u8 inverts the Address-to-u8 conversion: each of the nine      *)
(* variants has the listed code and from_u8 of that code is the variant;   *)
(* from_u8 of every other byte is None.                                    *)
(***************************************************************************)
AddressCodes ==
  {<<"SetpointTempControl", 0>>, <<"InternalTemp", 1>>, <<"ErrorReport", 5>>,
   <<"WarningMessage", 6>>, <<"SetProcessTemp", 9>>, <<"TempControlMode", 19>>,
   <<"TempControl", 20>>, <<"OperationLock", 23>>,
   <<"ProcessTempActualSettingMode", 25>>}

C9_AddressInverse ==
  /\ (mode = "address" /\ pc \in {"converted", "looked"}) => <<addr, byte>> \in AddressCodes
  /\ (mode = "address" /\ pc = "looked") => lookup = SomeAddress(addr)
  /\ (mode = "byte" /\ pc = "looked") =>
       IF \E p \in AddressCodes : p[2] = byte
       THEN lookup.some /\ <<lookup.addr, byte>> \in AddressCodes
       ELSE lookup = NoAddress

C9_Witness ==
  /\ mode = "address" /\ pc = "looked"
  /\ addr = "TempControlMode" /\ byte = 19
  /\ lookup = SomeAddress("TempControlMode")

(***************************************************************************)
(* C10: the decoder ignores the framing bytes: a 10-byte ASCII input gives *)
(* the same result whatever ASCII bytes stand at offsets 0, 8 and 9.       *)
(***************************************************************************)
Reframe(s, b0, b8, b9) ==
  [i \in 1..Len(s) |-> IF i = 1 THEN b0 ELSE IF i = 9 THEN b8
                       ELSE IF i = 10 THEN b9 ELSE s[i]]

C10_FramingIgnored ==
  DecodedFrame =>
    \A b0 \in {0, 123, 127}, t \in {<<0, 0>>, <<13, 10>>, <<10, 13>>, <<127, 127>>} :
      from_str(Reframe(input, b0, t[1], t[2])) = result

C10_Witness ==
  /\ DecodedFrame
  /\ input[1] # 123 /\ input[9] # 13 /\ input[10] # 10
  /\ result = Ok(Command("Slave", 49, Some(0)))
  /\ from_str(Reframe(input, 123, 13, 10)) = result

=============================================================================
